---- MODULE Spec2Model ----
(***************************************************************************)
(* Model of ledgerautosync/converter.py: Amount, Posting, Converter,       *)
(* OfxConverter and CsvConverter.                                          *)
(*                                                                         *)
(* Representation.  A Python string is a sequence of one-character         *)
(* strings, so that len(), startswith(), replace() and re.search() are     *)
(* computed character by character.  A Decimal is a record                 *)
(* [neg, coef, scale] standing for (-1)^neg * coef * 10^(-scale); the      *)
(* sign is kept apart from the coefficient because Decimal has a signed    *)
(* zero and Amount.format reads it with is_signed().  A returned text is   *)
(* kept as the sequence of its lines (each ending in the newline           *)
(* character); the Python return value is their concatenation.  A raised   *)
(* exception is recorded in the result's exc field.                        *)
(***************************************************************************)
EXTENDS Integers, Sequences, FiniteSets

VARIABLES conv, call, ret, keys

vars == <<conv, call, ret, keys>>

(***************************************************************************)
(* Bounds of the model.                                                    *)
(***************************************************************************)
MaxCoef == 5
MaxCurLen == 2
MaxAcctLen == 50
MaxIndent == 4
MaxIdLen == 1
MaxTxns == 2
MaxLegacyType == 5
MaxKeys == 2

(***************************************************************************)
(* Python values.                                                          *)
(***************************************************************************)
\* None, and an attribute the object does not have (hasattr is false).  An
\* optional string is None, Missing or Str(s).
None == [py |-> "None"]
Missing == [py |-> "Missing"]
Str(s) == [str |-> s]
NoExc == "none"
NL == "\n"

\* no call made yet, nothing returned yet, no converter constructed
NoCall == [op |-> "none"]
NoRet == [exc |-> NoExc]
NoConv == [class |-> "none"]

Rep(c, n) == [i \in 1..n |-> c]

RECURSIVE Pow10(_)
Pow10(n) == IF n = 0 THEN 1 ELSE 10 * Pow10(n - 1)

DigitChar(d) == <<"0", "1", "2", "3", "4", "5", "6", "7", "8", "9">>[d + 1]

RECURSIVE Digits(_)
Digits(n) == IF n < 10 THEN <<DigitChar(n)>>
             ELSE Digits(n \div 10) \o <<DigitChar(n % 10)>>

ZeroPad(n, w) == LET d == Digits(n)
                 IN IF Len(d) >= w THEN d ELSE Rep("0", w - Len(d)) \o d

IsDigit(c) == c \in {"0", "1", "2", "3", "4", "5", "6", "7", "8", "9"}

IsSpace(c) == c \in {" ", "\t", "\n", "\r", "\f"}

startswith(s, p) == /\ Len(p) <= Len(s)
                    /\ \A i \in 1..Len(p) : s[i] = p[i]

RECURSIVE Join(_)
Join(lines) == IF lines = <<>> THEN <<>> ELSE Head(lines) \o Join(Tail(lines))

RECURSIVE StrsUpTo(_, _)
StrsUpTo(alphabet, n) ==
    IF n = 0 THEN {<<>>}
    ELSE LET shorter == StrsUpTo(alphabet, n - 1)
         IN shorter \cup {Append(s, c) : s \in shorter, c \in alphabet}

(***************************************************************************)
(* Decimal.                                                                *)
(***************************************************************************)
Dec(neg, coef, scale) == [neg |-> neg, coef |-> coef, scale |-> scale]

is_signed(d) == d.neg

Max(a, b) == IF a >= b THEN a ELSE b

SignedCoef(d, scale) == LET c == d.coef * Pow10(scale - d.scale)
                        IN IF d.neg THEN 0 - c ELSE c

\* Decimal.__sub__: exact at the common scale; a zero difference is negative
\* only for (-0) - (+0), as in the General Decimal Arithmetic rules.
DecSub(a, b) ==
    LET s == Max(a.scale, b.scale)
        v == SignedCoef(a, s) - SignedCoef(b, s)
    IN IF v = 0 THEN Dec(a.neg /\ ~b.neg, 0, s)
       ELSE IF v < 0 THEN Dec(TRUE, 0 - v, s)
       ELSE Dec(FALSE, v, s)

\* Decimal.__mul__
DecMul(a, b) == Dec(a.neg # b.neg, a.coef * b.coef, a.scale + b.scale)

\* The value of a Decimal in units of 10^(-scale), for comparing amounts.
DecValue(d, scale) == SignedCoef(d, scale)

\* str(abs(number)) for a Decimal with 0 <= scale <= 6 (no exponent notation)
DecStr(d) ==
    IF d.scale = 0 THEN Digits(d.coef)
    ELSE Digits(d.coef \div Pow10(d.scale)) \o <<".">>
         \o ZeroPad(d.coef % Pow10(d.scale), d.scale)

\* The hundredths k (below 120) for which the double nearest to (k + 0.5)/100
\* prints as (k + 1)/100 under "%0.2f": the conversion of an exact tie goes
\* through float(), whose binary error decides the direction.
TieRoundsUp == {0, 2, 3, 5, 6, 8, 9, 11, 13, 16, 19, 22, 25, 26, 27, 31, 32,
                33, 37, 38, 39, 40, 44, 45, 46, 50, 51, 52, 53, 54, 55, 63,
                64, 65, 66, 67, 68, 75, 76, 77, 78, 79, 80, 87, 88, 89, 90,
                91, 92, 93, 113, 114, 115, 116, 117, 118, 119}

\* abs(number) in hundredths, as "%0.2f" rounds it
Hundredths(d) ==
    IF d.scale <= 2 THEN d.coef * Pow10(2 - d.scale)
    ELSE LET q == Pow10(d.scale - 2)
             fl == d.coef \div q
             rem == d.coef % q
         IN IF 2 * rem > q THEN fl + 1
            ELSE IF 2 * rem < q THEN fl
            ELSE IF fl \in TieRoundsUp THEN fl + 1 ELSE fl

\* "%0.2f" % (abs(number))
Fixed2(d) == LET h == Hundredths(d)
             IN Digits(h \div 100) \o <<".">> \o ZeroPad(h % 100, 2)

(***************************************************************************)
(* class Amount                                                            *)
(***************************************************************************)
Amount(number, currency, reverse, unlimited) ==
    [number |-> number, currency |-> currency,
     reverse |-> reverse, unlimited |-> unlimited]

\* re.search(r'[\s0-9]', self.currency)
NeedsQuote(currency) ==
    \E i \in 1..Len(currency) : IsSpace(currency[i]) \/ IsDigit(currency[i])

QuotedCurrency(currency) ==
    IF NeedsQuote(currency) THEN <<"\"">> \o currency \o <<"\"">>
    ELSE currency

AmountPrefix(self) ==
    IF is_signed(self.number) # self.reverse THEN <<"-">> ELSE <<>>

\* Amount_format with the placement decided on the label as given
Amount_format_RawLength(self) ==
    LET currency == QuotedCurrency(self.currency)
        number == IF self.unlimited THEN DecStr(self.number)
                  ELSE Fixed2(self.number)
        prefix == AmountPrefix(self)
    IN IF Len(self.currency) = 1
       THEN prefix \o currency \o number
       ELSE prefix \o number \o <<" ">> \o currency

Amount_format(self) ==
    LET currency == QuotedCurrency(self.currency)
        number == IF self.unlimited THEN DecStr(self.number)
                  ELSE Fixed2(self.number)
        prefix == AmountPrefix(self)
    IN IF Len(currency) = 1
       THEN prefix \o currency \o number
       ELSE prefix \o number \o <<" ">> \o currency

(***************************************************************************)
(* class Posting                                                           *)
(***************************************************************************)
PostingWidth == 52
MinGap == 2

Posting(account, amount, asserted, unit_price) ==
    [account |-> account, amount |-> amount,
     asserted |-> asserted, unit_price |-> unit_price]

\* space_count without the floor of two
space_count_NoFloor(self, indent) ==
    PostingWidth - indent - Len(self.account)
    - Len(Amount_format(self.amount))

space_count(self, indent) ==
    LET n == PostingWidth - indent - Len(self.account)
             - Len(Amount_format(self.amount))
    IN IF n < MinGap THEN MinGap ELSE n

Posting_format(self, indent) ==
    LET base == Rep(" ", indent) \o self.account
                \o Rep(" ", space_count(self, indent))
                \o Amount_format(self.amount)
        withAsserted ==
            IF self.asserted # None
            THEN base \o <<" ", "=", " ">> \o Amount_format(self.asserted)
            ELSE base
        withPrice ==
            IF self.unit_price # None
            THEN withAsserted \o <<" ", "@", " ">>
                 \o Amount_format(self.unit_price)
            ELSE withAsserted
    IN withPrice \o <<NL>>

(***************************************************************************)
(* Literals of converter.py.                                               *)
(***************************************************************************)
AUTOSYNC_INITIAL ==
    <<"a","u","t","o","s","y","n","c","_","i","n","i","t","i","a","l">>
UNKNOWN == <<"U","N","K","N","O","W","N">>
ExpensesMisc == <<"E","x","p","e","n","s","e","s",":","M","i","s","c">>
AssetsUnknown == <<"A","s","s","e","t","s",":","U","n","k","n","o","w","n">>
IncomeInterest == <<"I","n","c","o","m","e",":","I","n","t","e","r","e","s","t">>
AssetsEquity == <<"A","s","s","e","t","s",":","E","q","u","i","t","y">>
TransferPaypal == <<"T","r","a","n","s","f","e","r",":","P","a","y","p","a","l">>
OfxidTag == <<";"," ","o","f","x","i","d",":"," ">>
CsvidTag == <<";"," ","c","s","v","i","d",":"," ">>
BalanceAssertionTitle ==
    <<" ","*"," ","-","-","A","u","t","o","s","y","n","c"," ","B","a","l","a",
      "n","c","e"," ","A","s","s","e","r","t","i","o","n">>
InitialBalanceTitle ==
    <<" ","*"," ","-","-","A","u","t","o","s","y","n","c"," ","I","n","i","t",
      "i","a","l"," ","B","a","l","a","n","c","e">>
USD == <<"U","S","D">>
Zero == Dec(FALSE, 0, 0)

(***************************************************************************)
(* class Converter                                                         *)
(***************************************************************************)
\* str.replace(old, new) for one-character old and new
replace(s, old, new) == [i \in 1..Len(s) |-> IF s[i] = old THEN new ELSE s[i]]

\* clean_id without its last replace
clean_id_KeepsAt(id) ==
    replace(replace(replace(id, "/", "_"), "$", "_"), " ", "_")

clean_id(id) ==
    replace(replace(replace(replace(id, "/", "_"), "$", "_"), " ", "_"),
            "@", "_")

LowerLetters == <<"a","b","c","d","e","f","g","h","i","j","k","l","m",
                  "n","o","p","q","r","s","t","u","v","w","x","y","z">>
UpperLetters == <<"A","B","C","D","E","F","G","H","I","J","K","L","M",
                  "N","O","P","Q","R","S","T","U","V","W","X","Y","Z">>

UpperChar(c) ==
    IF \E k \in 1..26 : LowerLetters[k] = c
    THEN UpperLetters[CHOOSE k \in 1..26 : LowerLetters[k] = c]
    ELSE c

upper(s) == [i \in 1..Len(s) |-> UpperChar(s[i])]

\* Converter.__init__: the fields it sets
Converter_init(ledger, unknownaccount, currency, indent) ==
    [lgr |-> ledger, indent |-> indent, unknownaccount |-> unknownaccount,
     currency |-> IF upper(currency) = USD THEN <<"$">> ELSE upper(currency)]

Date(y, m, d) == [y |-> y, m |-> m, d |-> d]

\* date.strftime("%Y/%m/%d")
format_date(date) ==
    ZeroPad(date.y, 4) \o <<"/">> \o ZeroPad(date.m, 2) \o <<"/">>
    \o ZeroPad(date.d, 2)

\* x or default, for an optional string x: None and '' are false
OrDefault(x, default) ==
    IF x = None \/ x = Str(<<>>) THEN default ELSE x.str

\* found is what self.lgr.get_account_by_payee(payee, exclude) returns
mk_dynamic_account(self, payee, exclude, found) ==
    IF self.lgr = None THEN OrDefault(self.unknownaccount, ExpensesMisc)
    ELSE IF found = None THEN OrDefault(self.unknownaccount, ExpensesMisc)
    ELSE found.str

(***************************************************************************)
(* class OfxConverter                                                      *)
(***************************************************************************)
\* OfxConverter_init taking the institution's fid before the explicit one
OfxConverter_init_FidLast(account, name, indent, ledger, fid, unknownaccount) ==
    LET base == Converter_init(ledger, unknownaccount,
                               account.statement.currency, indent)
        built(f) == [class |-> "OfxConverter", lgr |-> base.lgr,
                     indent |-> base.indent,
                     unknownaccount |-> base.unknownaccount,
                     currency |-> base.currency,
                     acctid |-> account.account_id, fid |-> f, name |-> name]
    IN IF account.institution # None
       THEN [exc |-> NoExc, obj |-> built(account.institution.fid)]
       ELSE IF fid = None
       THEN [exc |-> "EmptyInstitutionException", obj |-> NoConv]
       ELSE [exc |-> NoExc, obj |-> built(fid.str)]

\* account is [account_id, institution, statement]; the result is the
\* exception raised, or the constructed object
OfxConverter_init(account, name, indent, ledger, fid, unknownaccount) ==
    LET base == Converter_init(ledger, unknownaccount,
                               account.statement.currency, indent)
        built(f) == [class |-> "OfxConverter", lgr |-> base.lgr,
                   indent |-> base.indent,
                   unknownaccount |-> base.unknownaccount,
                   currency |-> base.currency,
                   acctid |-> account.account_id, fid |-> f, name |-> name]
    IN IF fid # None THEN [exc |-> NoExc, obj |-> built(fid.str)]
       ELSE IF account.institution = None
       THEN [exc |-> "EmptyInstitutionException", obj |-> NoConv]
       ELSE [exc |-> NoExc, obj |-> built(account.institution.fid)]

mk_ofxid(self, txnid) ==
    clean_id(self.fid \o <<".">> \o self.acctid \o <<".">> \o txnid)

IsEmpty(x) == x = None \/ x = Str(<<>>)

\* txn.payee and txn.memo are Missing, None or Str(s)
format_payee(txn) ==
    LET payee == IF txn.payee # Missing THEN txn.payee ELSE None
        memo == IF txn.memo # Missing THEN txn.memo ELSE None
    IN IF IsEmpty(payee) /\ IsEmpty(memo)
       THEN [exc |-> NoExc, value |-> UNKNOWN]
       ELSE IF IsEmpty(payee)
       THEN [exc |-> NoExc, value |-> memo.str]
       \* txn.memo.startswith(payee): txn has no memo, or it is None
       ELSE IF txn.memo = Missing \/ txn.memo = None
       THEN [exc |-> "AttributeError"]
       ELSE IF startswith(txn.memo.str, payee.str)
       THEN [exc |-> NoExc, value |-> memo.str]
       ELSE IF IsEmpty(memo) \/ startswith(payee.str, memo.str)
       THEN [exc |-> NoExc, value |-> payee.str]
       ELSE [exc |-> NoExc, value |-> payee.str \o <<" ">> \o memo.str]

OfxidLine(self, ofxid) == Rep(" ", self.indent) \o OfxidTag \o ofxid \o <<NL>>

Raised(e) == [exc |-> e, lines |-> <<>>, postings |-> <<>>]

\* lines: the returned text, line by line; postings: the Posting objects built
Returned(lines, postings) ==
    [exc |-> NoExc, lines |-> lines, postings |-> postings]

\* the date of the assertion: balance_date, else end_date, when date-like
BalanceDate(statement) ==
    IF statement.balance_date # Missing /\ statement.balance_date # None
    THEN statement.balance_date
    ELSE IF statement.end_date # Missing /\ statement.end_date # None
    THEN statement.end_date
    ELSE None

format_balance(self, statement) ==
    IF BalanceDate(statement) = None THEN Returned(<<>>, <<>>)
    ELSE IF statement.balance # Missing
    THEN LET p == Posting(self.name, Amount(Zero, self.currency, FALSE, FALSE),
                          Amount(statement.balance, self.currency, FALSE, FALSE),
                          None)
         IN Returned(<<format_date(BalanceDate(statement))
                         \o BalanceAssertionTitle \o <<NL>>,
                       Posting_format(p, self.indent)>>,
                     <<p>>)
    ELSE Returned(<<>>, <<>>)

\* SubtractAll leaving the last transaction out
RECURSIVE SubtractAll_SkipsLast(_, _)
SubtractAll_SkipsLast(initbal, transactions) ==
    IF Len(transactions) <= 1 THEN initbal
    ELSE SubtractAll_SkipsLast(DecSub(initbal, Head(transactions).amount),
                               Tail(transactions))

\* initbal = statement.balance; for txn in transactions: initbal -= txn.amount
RECURSIVE SubtractAll(_, _)
SubtractAll(initbal, transactions) ==
    IF transactions = <<>> THEN initbal
    ELSE SubtractAll(DecSub(initbal, Head(transactions).amount),
                     Tail(transactions))

format_initial_balance(self, statement) ==
    IF statement.balance # Missing
    THEN LET initbal == SubtractAll(statement.balance, statement.transactions)
             p1 == Posting(self.name,
                           Amount(initbal, self.currency, FALSE, FALSE),
                           None, None)
             p2 == Posting(AssetsEquity,
                           Amount(initbal, self.currency, TRUE, FALSE),
                           None, None)
         IN Returned(<<format_date(statement.start_date)
                         \o InitialBalanceTitle \o <<NL>>,
                       OfxidLine(self, mk_ofxid(self, AUTOSYNC_INITIAL)),
                       Posting_format(p1, self.indent),
                       Posting_format(p2, self.indent)>>,
                     <<p1, p2>>)
    ELSE Returned(<<>>, <<>>)

\* re.match('^(buy|sell)', txn.type)
MatchesBuySell(type) ==
    \/ startswith(type, <<"b","u","y">>)
    \/ startswith(type, <<"s","e","l","l">>)

\* InvestmentContra with the legacy code 2 among the buy and sell codes
InvestmentContra_ReinvestAsTrade(self, type) ==
    IF "str" \in DOMAIN type
    THEN IF MatchesBuySell(type.str)
         THEN OrDefault(self.unknownaccount, AssetsUnknown)
         ELSE IF type.str = <<"r","e","i","n","v","e","s","t">>
         THEN IncomeInterest
         ELSE self.name
    ELSE IF type.int \in {0, 1, 2, 3, 4}
         THEN OrDefault(self.unknownaccount, AssetsUnknown)
         ELSE self.name

\* txn.type is Str(s) (recent ofxparse) or [int |-> n] (old ofxparse)
InvestmentContra(self, type) ==
    IF "str" \in DOMAIN type
    THEN IF MatchesBuySell(type.str)
         THEN OrDefault(self.unknownaccount, AssetsUnknown)
         ELSE IF type.str = <<"t","r","a","n","s","f","e","r">>
                 \/ type.str = <<"j","r","n","l","s","e","c">>
         THEN self.name
         ELSE IF type.str = <<"r","e","i","n","v","e","s","t">>
         THEN IncomeInterest
         ELSE self.name
    ELSE IF type.int \in {0, 1, 3, 4}
         THEN OrDefault(self.unknownaccount, AssetsUnknown)
         ELSE IF type.int = 2 THEN IncomeInterest
         ELSE self.name

InvestmentDate(txn) ==
    IF txn.settleDate # None /\ txn.settleDate # txn.tradeDate
    THEN format_date(txn.tradeDate) \o <<"=">> \o format_date(txn.settleDate)
    ELSE format_date(txn.tradeDate)

\* txn.kind stands for the class of txn: "Transaction" or
\* "InvestmentTransaction"; found is the answer of the ledger lookup
format_txn(self, txn, found) ==
    LET ofxid == mk_ofxid(self, txn.id)
        payee == format_payee(txn)
    IN IF txn.kind = "Transaction"
       THEN IF payee.exc # NoExc THEN Raised(payee.exc)
            ELSE LET p1 == Posting(self.name,
                                   Amount(txn.amount, self.currency, FALSE, FALSE),
                                   None, None)
                     p2 == Posting(mk_dynamic_account(self, payee.value,
                                                      self.name, found),
                                   Amount(txn.amount, self.currency, TRUE, FALSE),
                                   None, None)
                 IN Returned(<<format_date(txn.date) \o <<" ">>
                                 \o payee.value \o <<NL>>,
                               OfxidLine(self, ofxid),
                               Posting_format(p1, self.indent),
                               Posting_format(p2, self.indent)>>,
                             <<p1, p2>>)
       ELSE IF txn.kind = "InvestmentTransaction"
       THEN IF payee.exc # NoExc THEN Raised(payee.exc)
            ELSE LET acct1 == self.name
                     acct2 == InvestmentContra(self, txn.type)
                     p1 == Posting(acct1,
                                   Amount(txn.units, txn.security, FALSE, TRUE),
                                   None,
                                   Amount(txn.unit_price, self.currency,
                                          FALSE, TRUE))
                     p2 == Posting(acct2,
                                   Amount(DecMul(txn.units, txn.unit_price),
                                          self.currency, TRUE, FALSE),
                                   None, None)
                 IN Returned(<<InvestmentDate(txn) \o <<" ">>
                                 \o payee.value \o <<NL>>,
                               OfxidLine(self, ofxid),
                               Posting_format(p1, self.indent),
                               Posting_format(p2, self.indent)>>,
                             <<p1, p2>>)
       ELSE Returned(<<>>, <<>>)

(***************************************************************************)
(* class CsvConverter                                                      *)
(***************************************************************************)
PAYPAL_FIELDS ==
    <<"Date", "Time", "Time Zone", "Name", "Type", "Status", "Currency",
      "Gross", "Fee", "Net", "From Email Address", "To Email Address",
      "Transaction ID", "Counterparty Status", "Shipping Address",
      "Address Status", "Item Title", "Item ID",
      "Shipping and Handling Amount", "Insurance Amount", "Sales Tax",
      "Option 1 Name", "Option 1 Value", "Option 2 Name", "Option 2 Value",
      "Auction Site", "Buyer ID", "Item URL", "Closing Date", "Escrow Id",
      "Invoice Id", "Reference Txn ID", "Invoice Number", "Custom Number",
      "Receipt ID", "Balance", "Contact Phone Number", "">>

CountOf(x, q) == Cardinality({i \in 1..Len(q) : q[i] = x})

\* sorted(a) == sorted(b): the same names, each as many times
SameSorted(a, b) ==
    /\ Len(a) = Len(b)
    /\ \A i \in 1..Len(a) : CountOf(a[i], a) = CountOf(a[i], b)

Paypal == <<"p","a","y","p","a","l">>

CsvConverter_init(name, csv, indent, ledger, unknownaccount) ==
    LET base == Converter_init(ledger, unknownaccount, <<"$">>, indent)
    IN IF SameSorted(csv.fieldnames, PAYPAL_FIELDS)
       THEN [exc |-> NoExc,
             obj |-> [class |-> "CsvConverter", lgr |-> base.lgr,
                      indent |-> base.indent,
                      unknownaccount |-> base.unknownaccount,
                      currency |-> base.currency, name |-> name,
                      csv_type |-> Paypal]]
       ELSE [exc |-> "Exception", obj |-> NoConv]

mk_csv_id_line(self, txn_id) ==
    Rep(" ", self.indent) \o CsvidTag \o self.csv_type \o <<".">>
    \o clean_id(txn_id) \o <<NL>>

DigitValue(c) == CHOOSE d \in 0..9 : DigitChar(d) = c

AllDigits(s) == \A i \in 1..Len(s) : IsDigit(s[i])

RECURSIVE NatOf(_)
NatOf(s) == IF s = <<>> THEN 0
            ELSE 10 * NatOf(SubSeq(s, 1, Len(s) - 1)) + DigitValue(s[Len(s)])

\* the fields of s between the separators sep
RECURSIVE Split(_, _)
Split(s, sep) ==
    IF \E i \in 1..Len(s) : s[i] = sep
    THEN LET k == CHOOSE i \in 1..Len(s) :
                     s[i] = sep /\ \A j \in 1..(i - 1) : s[j] # sep
         IN <<SubSeq(s, 1, k - 1)>> \o Split(SubSeq(s, k + 1, Len(s)), sep)
    ELSE <<s>>

IsLeap(y) == (y % 4 = 0 /\ y % 100 # 0) \/ y % 400 = 0

DaysInMonth(y, m) ==
    IF m = 2 THEN (IF IsLeap(y) THEN 29 ELSE 28)
    ELSE IF m \in {4, 6, 9, 11} THEN 30 ELSE 31

\* datetime.datetime.strptime(s, "%m/%d/%Y") for s of digits and separators:
\* month and day of one or two digits, a year of four, a day of the month
strptime(s) ==
    LET f == Split(s, "/")
    IN IF /\ Len(f) = 3
          /\ \A i \in 1..3 : AllDigits(f[i])
          /\ Len(f[1]) \in {1, 2} /\ Len(f[2]) \in {1, 2} /\ Len(f[3]) = 4
          /\ NatOf(f[1]) \in 1..12
          /\ NatOf(f[3]) >= 1
          /\ NatOf(f[2]) \in 1..DaysInMonth(NatOf(f[3]), NatOf(f[1]))
       THEN [exc |-> NoExc,
             value |-> Date(NatOf(f[3]), NatOf(f[1]), NatOf(f[2]))]
       ELSE [exc |-> "ValueError"]

\* Decimal(s) for s of a sign, digits, "." and ",": an optional sign, then
\* digits with at most one point and at least one digit
ParseDecimal(s) ==
    LET neg == Len(s) > 0 /\ s[1] = "-"
        body == IF Len(s) > 0 /\ s[1] \in {"-", "+"}
                THEN SubSeq(s, 2, Len(s)) ELSE s
        f == Split(body, ".")
        int == f[1]
        frac == IF Len(f) = 2 THEN f[2] ELSE <<>>
    IN IF /\ Len(f) \in {1, 2}
          /\ AllDigits(int) /\ AllDigits(frac)
          /\ Len(int) + Len(frac) > 0
       THEN [exc |-> NoExc,
             value |-> Dec(neg, NatOf(int \o frac), Len(frac))]
       ELSE [exc |-> "InvalidOperation"]

\* re.sub(r"\s+", " ", s)
RECURSIVE CollapseSpace(_)
CollapseSpace(s) ==
    IF s = <<>> THEN <<>>
    ELSE IF IsSpace(Head(s))
    THEN IF Len(s) > 1 /\ IsSpace(s[2]) THEN CollapseSpace(Tail(s))
         ELSE <<" ">> \o CollapseSpace(Tail(s))
    ELSE <<Head(s)>> \o CollapseSpace(Tail(s))

Completed == <<"C","o","m","p","l","e","t","e","d">>
Refunded == <<"R","e","f","u","n","d","e","d">>
Reversed == <<"R","e","v","e","r","s","e","d">>
ShoppingCartItem ==
    <<"S","h","o","p","p","i","n","g"," ","C","a","r","t"," ","I","t","e","m">>
AddFunds ==
    <<"A","d","d"," ","F","u","n","d","s"," ","f","r","o","m"," ","a"," ",
      "B","a","n","k"," ","A","c","c","o","u","n","t">>
ChargeFromDebitCard ==
    <<"C","h","a","r","g","e"," ","F","r","o","m"," ","D","e","b","i","t"," ",
      "C","a","r","d">>

CsvPayee(row) ==
    row.Name \o <<" ">> \o row.ToEmailAddress \o <<" ">> \o row.ItemTitle
    \o <<" ", "I", "D", ":", " ">> \o row.TransactionID \o <<",", " ">>
    \o row.Type

CsvPostings(self, number, currency, contra) ==
    LET p1 == Posting(self.name, Amount(number, currency, FALSE, FALSE),
                      None, None)
        p2 == Posting(contra, Amount(number, currency, TRUE, FALSE),
                      None, None)
    IN <<p1, p2>>

\* CsvConverter.format_txn; a skipped row returns the empty string
Csv_format_txn(self, row) ==
    LET d == strptime(row.Date)
        skipped == \/ (row.Status # Completed /\ row.Status # Refunded
                       /\ row.Status # Reversed)
                   \/ row.Type = ShoppingCartItem
        funding == row.Type = AddFunds \/ row.Type = ChargeFromDebitCard
        number == ParseDecimal(IF funding THEN row.Net ELSE row.Gross)
        ps == CsvPostings(self, number.value, row.Currency,
                          IF funding THEN TransferPaypal ELSE ExpensesMisc)
    IN IF d.exc # NoExc THEN Raised(d.exc)
       ELSE IF skipped THEN Returned(<<>>, <<>>)
       ELSE IF number.exc # NoExc THEN Raised(number.exc)
       ELSE Returned(<<format_date(d.value) \o <<" ">>
                         \o CollapseSpace(CsvPayee(row)) \o <<NL>>,
                       mk_csv_id_line(self, row.TransactionID),
                       Posting_format(ps[1], self.indent),
                       Posting_format(ps[2], self.indent)>>,
                     ps)

(***************************************************************************)
(* Inputs.                                                                 *)
(***************************************************************************)
Scales == {0, 2, 3}

Numbers == {Dec(neg, coef, scale) :
                neg \in BOOLEAN, coef \in 0..MaxCoef, scale \in Scales}

CurAlphabet == {"$", "U", "1", " "}

Currencies == StrsUpTo(CurAlphabet, MaxCurLen)

Amounts == {Amount(n, c, r, u) :
                n \in Numbers, c \in Currencies,
                r \in BOOLEAN, u \in BOOLEAN}

PostingAmounts == {Amount(Dec(neg, MaxCoef, 0), c, r, FALSE) :
                       neg \in BOOLEAN, r \in BOOLEAN,
                       c \in {<<"$">>, <<"U", "U">>}}

Accounts == {Rep("a", n) : n \in 0..MaxAcctLen}

AssetsChecking == <<"A","s","s","e","t","s",":","C","h","e","c","k","i","n","g">>
ExpensesUnknown == <<"E","x","p","e","n","s","e","s",":","U","n","k","n","o","w","n">>
ExpensesFood == <<"E","x","p","e","n","s","e","s",":","F","o","o","d">>
AutosyncSpaced ==
    <<"a","u","t","o","s","y","n","c"," ","i","n","i","t","i","a","l">>
DefaultIndent == 4
Ledger == [py |-> "Ledger"]

IdAlphabet == {"a", "/", "$", " ", "@", "_"}

TxnIdAlphabet == {"a", "/", "$", "_"}

TxnIds == StrsUpTo(TxnIdAlphabet, MaxIdLen)
          \cup {AUTOSYNC_INITIAL, AutosyncSpaced}

Texts == {<<>>, <<"P">>, <<"P", "Q">>, <<"Q">>}

OptTexts == {Missing, None} \cup {Str(t) : t \in Texts}

StatementOf(currency) == [currency |-> currency]

\* constructor arguments of the life-cycle specification
AccountArgs ==
    {[account_id |-> a, institution |-> i, statement |-> StatementOf(c)] :
        a \in {<<"1">>, <<"1", "/", "2">>},
        i \in {None, [fid |-> <<"B", "$">>]},
        c \in {<<"u", "s", "d">>, <<"E", "U", "R">>}}

FidArgs == {None, Str(<<"F", "@">>)}

Dates == {Date(2014, 1, 2), Date(2014, 11, 30)}

ADate == Date(2014, 1, 2)

CashTxn(id, payee, memo, amount) ==
    [kind |-> "Transaction", id |-> id, date |-> ADate,
     payee |-> payee, memo |-> memo, amount |-> amount]

CashTxns == {CashTxn(id, payee, memo, amount) :
                id \in {<<"1">>, <<"1", "/", "2">>},
                payee \in OptTexts, memo \in OptTexts, amount \in Numbers}

TypeNames == {<<"b","u","y">>, <<"b","u","y","m","f">>, <<"s","e","l","l">>,
              <<"s","e","l","l","s","t","o","c","k">>,
              <<"t","r","a","n","s","f","e","r">>, <<"j","r","n","l","s","e","c">>,
              <<"r","e","i","n","v","e","s","t">>, <<"r","e","b","u","y">>,
              <<"d","i","v">>, <<>>}

InvTypes == {Str(t) : t \in TypeNames} \cup {[int |-> n] : n \in -1..MaxLegacyType}

Units == {Dec(neg, coef, 3) : neg \in BOOLEAN, coef \in {0, MaxCoef}}

Prices == {Dec(FALSE, MaxCoef, scale) : scale \in {0, 2}}

Securities == {<<"A", "B">>, <<"9", "A">>}

InvTxns == {[kind |-> "InvestmentTransaction", id |-> <<"1">>,
             tradeDate |-> ADate, settleDate |-> sd, type |-> ty,
             units |-> u, unit_price |-> up, security |-> sec,
             payee |-> payee, memo |-> memo] :
               sd \in {None} \cup Dates, ty \in InvTypes, u \in Units,
               up \in Prices, sec \in Securities,
               payee \in {Missing, Str(<<"P">>)},
               memo \in {Missing, Str(<<>>), Str(<<"P">>)}}

StmtAmounts == {Dec(FALSE, 0, 2), Dec(TRUE, 0, 2), Dec(FALSE, 1, 2),
                Dec(TRUE, MaxCoef, 2), Dec(FALSE, MaxCoef, 3)}

RECURSIVE SeqsUpTo(_, _)
SeqsUpTo(S, n) ==
    IF n = 0 THEN {<<>>}
    ELSE LET shorter == SeqsUpTo(S, n - 1)
         IN shorter \cup {Append(q, x) : q \in shorter, x \in S}

StmtTxns == {CashTxn(<<"1">>, Str(<<"P">>), Str(<<>>), a) : a \in StmtAmounts}

Statements ==
    {[balance |-> b, balance_date |-> bd, end_date |-> ed,
      start_date |-> ADate, transactions |-> txns] :
        b \in {Missing} \cup StmtAmounts,
        bd \in {Missing, Date(2014, 11, 30)},
        ed \in {None, Date(2014, 1, 2)},
        txns \in SeqsUpTo(StmtTxns, MaxTxns)}


(***************************************************************************)
(* Amount and Posting called on their own.                                 *)
(***************************************************************************)
InitFmt ==
    /\ conv = NoConv
    /\ call = NoCall
    /\ ret = NoRet
    /\ keys = <<>>

AmountFormat ==
    /\ call = NoCall
    /\ \E self \in Amounts :
          /\ call' = [op |-> "Amount.format", self |-> self]
          /\ ret' = [exc |-> NoExc, value |-> Amount_format(self)]
    /\ UNCHANGED <<conv, keys>>

PostingFormat ==
    /\ call = NoCall
    /\ \E account \in Accounts, amount \in PostingAmounts,
          asserted \in {None, Amount(Dec(FALSE, MaxCoef, 2), <<"$">>, FALSE, FALSE)},
          unit_price \in {None, Amount(Dec(FALSE, MaxCoef, 3), <<"$">>, FALSE, TRUE)},
          indent \in 0..MaxIndent :
          LET self == Posting(account, amount, asserted, unit_price)
          IN /\ call' = [op |-> "Posting.format", self |-> self,
                         indent |-> indent]
             /\ ret' = [exc |-> NoExc, value |-> Posting_format(self, indent)]
    /\ UNCHANGED <<conv, keys>>

NextFmt == AmountFormat \/ PostingFormat

SpecFmt == InitFmt /\ [][NextFmt]_vars

(***************************************************************************)
(* The life cycle of an OfxConverter: construction, then the methods that  *)
(* build dedup keys and payees.  keys logs every call of mk_ofxid: the     *)
(* transaction id it was given and the key it returned.                    *)
(***************************************************************************)
Init ==
    /\ conv = NoConv
    /\ call = NoCall
    /\ ret = NoRet
    /\ keys = <<>>

CtorCall(account, name, indent, ledger, fid, unknownaccount) ==
    [op |-> "OfxConverter.__init__", account |-> account, name |-> name,
     indent |-> indent, ledger |-> ledger, fid |-> fid,
     unknownaccount |-> unknownaccount]

Construct ==
    /\ call = NoCall
    /\ \E account \in AccountArgs, fid \in FidArgs :
          LET r == OfxConverter_init(account, AssetsChecking, DefaultIndent,
                                     None, fid, None)
          IN /\ call' = CtorCall(account, AssetsChecking, DefaultIndent,
                                 None, fid, None)
             /\ ret' = [exc |-> r.exc]
             /\ conv' = r.obj
    /\ UNCHANGED keys

\* the static method, called on its own
CleanId ==
    /\ call = NoCall
    /\ \E id \in StrsUpTo(IdAlphabet, MaxIdLen + 1) :
          /\ call' = [op |-> "clean_id", id |-> id]
          /\ ret' = [exc |-> NoExc, value |-> clean_id(id)]
    /\ UNCHANGED <<conv, keys>>

Fresh == conv # NoConv /\ call.op = "OfxConverter.__init__"

MkOfxid ==
    /\ conv # NoConv
    /\ call.op \in {"OfxConverter.__init__", "mk_ofxid"}
    /\ Len(keys) < MaxKeys
    /\ \E txnid \in TxnIds :
          /\ call' = [op |-> "mk_ofxid", txnid |-> txnid]
          /\ ret' = [exc |-> NoExc, value |-> mk_ofxid(conv, txnid)]
          /\ keys' = Append(keys, [txnid |-> txnid,
                                   ofxid |-> mk_ofxid(conv, txnid)])
    /\ UNCHANGED conv

FormatPayee ==
    /\ Fresh
    /\ \E payee \in OptTexts, memo \in OptTexts :
          LET txn == [payee |-> payee, memo |-> memo]
          IN /\ call' = [op |-> "format_payee", txn |-> txn]
             /\ ret' = format_payee(txn)
    /\ UNCHANGED <<conv, keys>>

Next == Construct \/ CleanId \/ MkOfxid \/ FormatPayee

Spec == Init /\ [][Next]_vars

(***************************************************************************)
(* A constructed OfxConverter formatting one record.                       *)
(***************************************************************************)
TxnAccount == [account_id |-> <<"1">>, institution |-> None,
               statement |-> StatementOf(<<"u", "s", "d">>)]

InitTxn ==
    /\ \E c \in {<<"u", "s", "d">>, <<"E", "U", "R">>},
          ledger \in {None, Ledger},
          unknownaccount \in {None, Str(ExpensesUnknown)} :
          LET account == [TxnAccount EXCEPT !.statement = StatementOf(c)]
              r == OfxConverter_init(account, AssetsChecking, DefaultIndent,
                                     ledger, Str(<<"F">>), unknownaccount)
          IN /\ conv = r.obj
             /\ call = CtorCall(account, AssetsChecking, DefaultIndent,
                                ledger, Str(<<"F">>), unknownaccount)
             /\ ret = [exc |-> r.exc]
    /\ keys = <<>>

\* what the ledger lookup may answer: nothing is asked without a ledger
Lookups == IF conv.lgr = None THEN {None} ELSE {None, Str(ExpensesFood)}

FormatTxnCash ==
    /\ Fresh
    /\ \E txn \in CashTxns, found \in Lookups :
          /\ call' = [op |-> "format_txn", txn |-> txn, found |-> found]
          /\ ret' = format_txn(conv, txn, found)
          /\ keys' = Append(keys, [txnid |-> txn.id,
                                   ofxid |-> mk_ofxid(conv, txn.id)])
    /\ UNCHANGED conv

FormatTxnInvestment ==
    /\ Fresh
    /\ \E txn \in InvTxns :
          /\ call' = [op |-> "format_txn", txn |-> txn, found |-> None]
          /\ ret' = format_txn(conv, txn, None)
          /\ keys' = Append(keys, [txnid |-> txn.id,
                                   ofxid |-> mk_ofxid(conv, txn.id)])
    /\ UNCHANGED conv

FormatBalance ==
    /\ Fresh
    /\ \E statement \in Statements :
          /\ call' = [op |-> "format_balance", statement |-> statement]
          /\ ret' = format_balance(conv, statement)
    /\ UNCHANGED <<conv, keys>>

FormatInitialBalance ==
    /\ Fresh
    /\ \E statement \in Statements :
          /\ call' = [op |-> "format_initial_balance", statement |-> statement]
          /\ ret' = format_initial_balance(conv, statement)
          /\ keys' = IF statement.balance # Missing
                     THEN Append(keys, [txnid |-> AUTOSYNC_INITIAL,
                                        ofxid |-> mk_ofxid(conv, AUTOSYNC_INITIAL)])
                     ELSE keys
    /\ UNCHANGED conv

NextTxn == FormatTxnCash \/ FormatTxnInvestment \/ FormatBalance
           \/ FormatInitialBalance

SpecTxn == InitTxn /\ [][NextTxn]_vars


(***************************************************************************)
(* A CsvConverter: construction over a file's header, then one row.        *)
(***************************************************************************)
Pending == <<"P","e","n","d","i","n","g">>
PaymentSent == <<"P","a","y","m","e","n","t"," ","S","e","n","t">>

CsvStatuses == {Completed, Refunded, Reversed, Pending, <<>>}

CsvTypes == {ShoppingCartItem, AddFunds, ChargeFromDebitCard, PaymentSent}

CsvDates == {<<"0","1","/","0","2","/","2","0","1","4">>,
             <<"1","/","2","/","2","0","1","4">>,
             <<"0","2","/","3","0","/","2","0","1","4">>,
             <<"2","0","1","4","-","0","1","-","0","2">>,
             <<>>}

CsvNumbers == {<<"-","5",".","0","0">>, <<"5">>, <<"1",",","5","0","0",".","0","0">>,
               <<>>}

CsvRows ==
    {[Date |-> d, Name |-> <<"N">>, ToEmailAddress |-> <<"a", "@", "b">>,
      ItemTitle |-> <<"T", " ", " ", "x">>, TransactionID |-> id,
      Type |-> ty, Status |-> st, Currency |-> cur, Gross |-> g, Net |-> n] :
        d \in CsvDates, id \in {<<"9", "X">>, <<"9", " ", "X">>},
        ty \in CsvTypes, st \in CsvStatuses,
        cur \in {<<"U", "S", "D">>, <<"$">>},
        g \in CsvNumbers, n \in CsvNumbers}

Reverse(q) == [i \in 1..Len(q) |-> q[Len(q) + 1 - i]]

CsvHeaders == {PAYPAL_FIELDS, Reverse(PAYPAL_FIELDS), Tail(PAYPAL_FIELDS),
               <<"Date">> \o Tail(Tail(PAYPAL_FIELDS)) \o <<"Date">>, <<>>}

CsvConstruct ==
    /\ call = NoCall
    /\ \E fieldnames \in CsvHeaders, indent \in {2, DefaultIndent} :
          LET csv == [fieldnames |-> fieldnames]
              r == CsvConverter_init(AssetsChecking, csv, indent, None, None)
          IN /\ call' = [op |-> "CsvConverter.__init__", csv |-> csv,
                         name |-> AssetsChecking, indent |-> indent]
             /\ ret' = [exc |-> r.exc]
             /\ conv' = r.obj
    /\ UNCHANGED keys

CsvFormatTxn ==
    /\ conv # NoConv
    /\ call.op = "CsvConverter.__init__"
    /\ \E row \in CsvRows :
          /\ call' = [op |-> "CsvConverter.format_txn", row |-> row]
          /\ ret' = Csv_format_txn(conv, row)
    /\ UNCHANGED <<conv, keys>>

NextCsv == CsvConstruct \/ CsvFormatTxn

SpecCsv == Init /\ [][NextCsv]_vars

(***************************************************************************)
(* Properties.                                                             *)
(***************************************************************************)
Specials == {"/", "$", " ", "@"}

HasSpecial(s) == \E i \in 1..Len(s) : s[i] \in Specials

\* the number of consecutive spaces of line from position i on
RECURSIVE SpacesFrom(_, _)
SpacesFrom(line, i) ==
    IF i <= Len(line) /\ line[i] = " " THEN 1 + SpacesFrom(line, i + 1) ELSE 0

\* the amount as printed on the line of a posting without assertion or price
RenderedAmount(line, indent, account) ==
    LET start == indent + Len(account) + 1
    IN SubSeq(line, start + SpacesFrom(line, start), Len(line) - 1)

\* two printed amounts that differ in the leading minus sign only
Inverses(a, b) == a = <<"-">> \o b \/ b = <<"-">> \o a

IsAmountFormat == call.op = "Amount.format"

C7_Label(amount) ==
    IF \E i \in 1..Len(amount.currency) :
          IsDigit(amount.currency[i]) \/ IsSpace(amount.currency[i])
    THEN <<"\"">> \o amount.currency \o <<"\"">>
    ELSE amount.currency

C7_Sign(amount) ==
    IF amount.number.neg # amount.reverse THEN <<"-">> ELSE <<>>

C7_Digits(amount) ==
    IF amount.unlimited THEN DecStr(amount.number) ELSE Fixed2(amount.number)

C7_Before(amount) == C7_Sign(amount) \o C7_Label(amount) \o C7_Digits(amount)

C7_After(amount) ==
    C7_Sign(amount) \o C7_Digits(amount) \o <<" ">> \o C7_Label(amount)

IsPostingFormat == call.op = "Posting.format"

C8_Used ==
    call.indent + Len(call.self.account) + Len(Amount_format(call.self.amount))

C8_GapStart == call.indent + Len(call.self.account) + 1

C8_Gap == SpacesFrom(ret.value, C8_GapStart)

\* C8: the run of spaces between account and amount is
\* max(2, 52 - indent - len(account) - len(amount)), never shorter than two;
\* the line up to the end of the amount is 52 wide whenever
\* indent + len(account) + len(amount) <= 50; the line ends with a newline.
C8_GapAndWidth ==
    IsPostingFormat =>
        LET amount == Amount_format(call.self.amount)
            gap == C8_Gap
        IN /\ ret.exc = NoExc
           /\ SubSeq(ret.value, 1, call.indent) = Rep(" ", call.indent)
           /\ SubSeq(ret.value, call.indent + 1, C8_GapStart - 1)
                = call.self.account
           /\ gap = Max(2, 52 - C8_Used)
           /\ gap >= 2
           /\ SubSeq(ret.value, C8_GapStart + gap,
                     C8_GapStart + gap + Len(amount) - 1) = amount
           /\ C8_Used <= 50 =>
                 /\ C8_GapStart + gap + Len(amount) - 1 = 52
                 /\ SubSeq(ret.value, 53 - Len(amount), 52) = amount
           /\ ret.value[Len(ret.value)] = NL

\* an account too long for the column: the gap is held at two
C8_Witness ==
    /\ IsPostingFormat
    /\ C8_Used > 50
    /\ C8_Gap = 2
    /\ call.indent > 0

IsMkOfxid == call.op = "mk_ofxid"

\* C2: mk_ofxid(txnid) is clean_id of "<institution-id>.<account-id>.<txnid>";
\* the key holds none of '/', '$', ' ', '@'; cleaning a cleaned string changes
\* nothing.
C2_OfxidIsCleaned ==
    /\ IsMkOfxid =>
          LET joined == conv.fid \o <<".">> \o conv.acctid \o <<".">>
                        \o call.txnid
          IN /\ ret.exc = NoExc
             /\ Len(ret.value) = Len(joined)
             /\ \A i \in 1..Len(joined) :
                   ret.value[i] = IF joined[i] \in Specials THEN "_"
                                  ELSE joined[i]
             /\ ~HasSpecial(ret.value)
             /\ clean_id(ret.value) = ret.value
    /\ call.op = "clean_id" =>
          /\ ~HasSpecial(ret.value)
          /\ clean_id(ret.value) = ret.value

\* a key built from an institution id, an account id and a transaction id
\* that each hold a character to replace
C2_Witness ==
    /\ IsMkOfxid
    /\ HasSpecial(conv.fid) /\ HasSpecial(conv.acctid) /\ HasSpecial(call.txnid)
    /\ ~HasSpecial(ret.value)

IsCtor == call.op = "OfxConverter.__init__"

\* C3: construction fails with the configuration error exactly when the
\* account has no institution and no fid was given; otherwise it succeeds and
\* the institution id of the keys is the given fid, else the institution's.
C3_Construction ==
    IsCtor =>
        LET unconfigured == call.account.institution = None /\ call.fid = None
        IN /\ unconfigured <=> ret.exc = "EmptyInstitutionException"
           /\ unconfigured => conv = NoConv
           /\ ~unconfigured =>
                 LET id == IF call.fid # None THEN call.fid.str
                           ELSE call.account.institution.fid
                 IN /\ ret.exc = NoExc
                    /\ conv # NoConv
                    /\ conv.fid = id
                    /\ startswith(mk_ofxid(conv, <<"t">>),
                                  clean_id(id) \o <<".">>)

\* an explicit fid given for an account that has an institution as well
C3_Witness ==
    /\ IsCtor
    /\ call.fid # None /\ call.account.institution # None
    /\ conv.fid = call.fid.str
    /\ conv.fid # call.account.institution.fid

IsFormatPayee == call.op = "format_payee"

C4_Empty(x) == x = Missing \/ x = None \/ x = Str(<<>>)

\* C4: format_payee returns a string and never raises: "UNKNOWN" when payee
\* and memo are both missing or empty; the memo when the payee is missing or
\* empty or the memo starts with the payee; the payee when the memo is missing
\* or empty or the payee starts with the memo; otherwise "<payee> <memo>".
C4_FormatPayeeTotal ==
    IsFormatPayee =>
        LET payee == call.txn.payee
            memo == call.txn.memo
        IN /\ ret.exc = NoExc
           /\ ret.value =
                IF C4_Empty(payee) /\ C4_Empty(memo) THEN UNKNOWN
                ELSE IF C4_Empty(payee) THEN memo.str
                ELSE IF C4_Empty(memo) THEN payee.str
                ELSE IF startswith(memo.str, payee.str) THEN memo.str
                ELSE IF startswith(payee.str, memo.str) THEN payee.str
                ELSE payee.str \o <<" ">> \o memo.str

\* C10 as stated: transaction ids that differ never share a key, the id of
\* the initial-balance entry included.
C10_KeysCollisionFree ==
    \A i, j \in 1..Len(keys) :
        keys[i].txnid # keys[j].txnid => keys[i].ofxid # keys[j].ofxid

\* C10, the extent of the collisions: within one converter two transaction
\* ids share a key exactly when they are equal after clean_id, and an id
\* shares the key of the initial-balance entry exactly when it cleans to
\* "autosync_initial".
C10_KeysAgreeIffCleanedIdsAgree ==
    \A i, j \in 1..Len(keys) :
        /\ keys[i].ofxid = keys[j].ofxid
              <=> clean_id(keys[i].txnid) = clean_id(keys[j].txnid)
        /\ keys[i].ofxid = mk_ofxid(conv, AUTOSYNC_INITIAL)
              <=> clean_id(keys[i].txnid) = AUTOSYNC_INITIAL

\* C10: the key of the initial-balance entry, then the same key for another
\* transaction id
C10_Collision ==
    /\ Len(keys) = 2
    /\ keys[1].txnid = AUTOSYNC_INITIAL
    /\ keys[2].txnid # AUTOSYNC_INITIAL
    /\ keys[1].ofxid = keys[2].ofxid

IsCashTxn == call.op = "format_txn" /\ call.txn.kind = "Transaction"

\* C1: for every cash transaction format_txn emits exactly two postings, the
\* first to the converter's account with the amount as it is, the second to
\* the contra-account with the amount reversed, and the two printed amounts
\* differ in sign only.
C1_TwoInversePostings ==
    IsCashTxn =>
        /\ ret.exc = NoExc
        /\ Len(ret.postings) = 2
        /\ Len(ret.lines) = 4
        /\ ret.postings[1].account = conv.name
        /\ ret.postings[1].amount
             = Amount(call.txn.amount, conv.currency, FALSE, FALSE)
        /\ ret.postings[2].amount
             = Amount(call.txn.amount, conv.currency, TRUE, FALSE)
        /\ Inverses(RenderedAmount(ret.lines[3], conv.indent,
                                   ret.postings[1].account),
                    RenderedAmount(ret.lines[4], conv.indent,
                                   ret.postings[2].account))

IsInvestmentTxn ==
    call.op = "format_txn" /\ call.txn.kind = "InvestmentTransaction"

C5_UnknownDefault ==
    IF conv.unknownaccount # None /\ conv.unknownaccount # Str(<<>>)
    THEN conv.unknownaccount.str ELSE AssetsUnknown

C5_Contra(type) ==
    IF "str" \in DOMAIN type
    THEN IF \/ startswith(type.str, <<"b","u","y">>)
            \/ startswith(type.str, <<"s","e","l","l">>)
         THEN C5_UnknownDefault
         ELSE IF type.str = <<"r","e","i","n","v","e","s","t">>
         THEN IncomeInterest
         ELSE conv.name
    ELSE IF type.int \in {0, 1, 3, 4} THEN C5_UnknownDefault
         ELSE IF type.int = 2 THEN IncomeInterest
         ELSE conv.name

\* C5: the contra-account of an investment transaction follows from its type
\* code alone: buy*, sell* and the legacy codes 0, 1, 3, 4 give the unknown
\* account (configured, else "Assets:Unknown"); "reinvest" and 2 give
\* "Income:Interest"; every other code gives the converter's own account; and
\* no type code makes format_txn fail: it fails only where format_payee does,
\* on a payee with no memo, whatever the type code.
C5_ContraByTypeCode ==
    IsInvestmentTxn =>
        /\ ret.exc # NoExc <=>
              /\ ~C4_Empty(call.txn.payee)
              /\ call.txn.memo \in {Missing, None}
        /\ ret.exc = NoExc =>
              /\ Len(ret.postings) = 2
              /\ ret.postings[1].account = conv.name
              /\ ret.postings[2].account = C5_Contra(call.txn.type)
              /\ startswith(ret.lines[4],
                            Rep(" ", conv.indent) \o C5_Contra(call.txn.type)
                            \o <<" ", " ">>)

\* a legacy buy code sent to the configured unknown account
C5_Witness ==
    /\ IsInvestmentTxn
    /\ call.txn.type = [int |-> 3]
    /\ conv.unknownaccount = Str(ExpensesUnknown)
    /\ ret.exc = NoExc
    /\ ret.postings[2].account = ExpensesUnknown

IsInitialBalance ==
    call.op = "format_initial_balance" /\ call.statement.balance # Missing

\* amounts are compared in thousandths, the finest unit of the inputs
C9_Value(d) == DecValue(d, 3)

RECURSIVE C9_SumInOrder(_, _)
C9_SumInOrder(txns, order) ==
    IF order = <<>> THEN 0
    ELSE C9_Value(format_txn(conv, txns[Head(order)], None)
                    .postings[1].amount.number)
         + C9_SumInOrder(txns, Tail(order))

C9_Orders(n) ==
    {o \in [1..n -> 1..n] : \A i, j \in 1..n : o[i] = o[j] => i = j}

RECURSIVE C9_SumOfAmounts(_)
C9_SumOfAmounts(txns) ==
    IF txns = <<>> THEN 0
    ELSE C9_Value(Head(txns).amount) + C9_SumOfAmounts(Tail(txns))

C9_Asserted ==
    LET b == format_balance(conv, call.statement)
    IN IF b.postings = <<>> THEN call.statement.balance
       ELSE b.postings[1].asserted.number

IsCsvTxn == call.op = "CsvConverter.format_txn"

C6_Skipped(row) ==
    \/ row.Status \notin {Completed, Refunded, Reversed}
    \/ row.Type = ShoppingCartItem

C6_Funding(row) == row.Type \in {AddFunds, ChargeFromDebitCard}

\* C6: a row whose Status is outside {Completed, Refunded, Reversed} or whose
\* Type is "Shopping Cart Item" gives empty output, whatever its other fields
\* hold; every other row gives a block with one csvid line and two postings,
\* of the Net amount against "Transfer:Paypal" for the two funding types and
\* of the Gross amount against "Expenses:Misc" otherwise.
C6_RowsSkippedOrPosted ==
    IsCsvTxn =>
        LET row == call.row
        IN /\ ret.exc = NoExc
           /\ C6_Skipped(row) <=> ret.lines = <<>>
           /\ ~C6_Skipped(row) =>
                 LET text == IF C6_Funding(row) THEN row.Net ELSE row.Gross
                     number == ParseDecimal(text).value
                 IN /\ Len(ret.lines) = 4
                    /\ ret.lines[2] = Rep(" ", conv.indent) \o CsvidTag
                                      \o Paypal \o <<".">>
                                      \o clean_id(row.TransactionID) \o <<NL>>
                    /\ Len(ret.postings) = 2
                    /\ ret.postings[1].account = conv.name
                    /\ ret.postings[1].amount
                         = Amount(number, row.Currency, FALSE, FALSE)
                    /\ ret.postings[2].account
                         = (IF C6_Funding(row) THEN TransferPaypal
                            ELSE ExpensesMisc)
                    /\ ret.postings[2].amount
                         = Amount(number, row.Currency, TRUE, FALSE)

====
